---- MODULE Spec2Model ----
(***************************************************************************)
(* A model of the ranked discussion tree of go.forum: the Entry node with  *)
(* its intrusive parent / child / sibling links (entry.go), scoring,       *)
(* insertion (AddChild / addSibling), the Arrange pass with its linked     *)
(* list merge sort, and the materialization of a tree from the rows of    *)
(* the closure table (entry_db.go, getEntries).                            *)
(*                                                                         *)
(* Numbers.  Score() is a float64 in the source.  Here a score is the      *)
(* integer number of 1e-8 units that round(x, 8) keeps, computed with      *)
(* exact integer arithmetic: points and decayed child points are held in   *)
(* units of 1/Unit (a power of two, so every halving by DECAY is exact),   *)
(* and the gravity divisor (hours+2)^1.8 is a rational per creation time.  *)
(***************************************************************************)
EXTENDS Integers, Sequences, FiniteSets, TLC

\* Bounds of the model.
MaxNodes == 4
MaxVotes == 1

\* The nil pointer, and the set of entries that can be allocated.
Nil == 0
Nodes == 1..MaxNodes
Ref == Nodes \cup {Nil}

\* The dummy head that merge() allocates with New(); only its sibling slot is used.
Dummy == -1

\* Creation times of the entries of a tree: time.Now() ("now") and the zero
\* time.Time of a literal &Entry{...} ("zero"), for which time.Since saturates at
\* the maximal Duration. Gravity knows "twoDays" (48 hours ago) as well.
Ages == {"now", "zero"}

VARIABLES
    parent, child, sibling,   \* the three links of every Entry
    upvotes, downvotes,       \* vote aggregates of every Entry
    created,                  \* creation time of every Entry
    alloc,                    \* number of entries allocated so far
    root,                     \* the entry the caller holds (x in the tests)
    stage,                    \* what the caller has done to the tree so far
    request,                  \* getEntries: the root id and the flag asked for
    rows,                     \* getEntries: the rows of the query, <<ancestor, id>>
    relationships,            \* getEntries: the slice of Parent / Child pairs
    pos,                      \* getEntries: index of the next pair to link
    result,                   \* getEntries: how the call has ended, if it has
    probe,                    \* the last call of a scoring function and its result
    run,                      \* the test function that runs, and how far it is
    childCount,               \* the cached count of every Entry
    hasChildCount,            \* whether the Entry has a cached count
    db                        \* the entry and entry_closures tables, as Persist sees them

vars == <<parent, child, sibling, upvotes, downvotes, created, alloc, root, stage,
          request, rows, relationships, pos, result, probe, run,
          childCount, hasChildCount, db>>

engineVars == <<parent, child, sibling, upvotes, downvotes, created, alloc, root, stage>>
dbVars == <<request, rows, relationships, pos, result>>
memoVars == <<childCount, hasChildCount>>

\* The links of all entries, as the value the operations transform.
Heap == [parent |-> parent, child |-> child, sibling |-> sibling]

Allocated(n) == n \in Nodes /\ n <= alloc

(***************************************************************************)
(* Scoring                                                                 *)
(***************************************************************************)

\* Fixed point unit for points: a power of two, so that every halving by DECAY of
\* a chain of up to eight links is exact (as it is in float64).
Unit == 2 ^ 8

\* EPS = 1e-3 is one part in Milli.
Milli == 1000

AbsVal(x) == IF x < 0 THEN -x ELSE x

\* floor(a * n / d) for a >= 0, without forming the product a * n.
MulDiv(a, n, d) == (a \div d) * n + ((a % d) * n) \div d

\* Points return a user-visible indicator of Upvotes - Downvotes
Points(e) == IF e = Nil THEN 0 ELSE upvotes[e] - downvotes[e]

\* DECAY = 0.5, applied to a value in units of 1/Unit
Decay(x) == x \div 2

\* recursivePoints that does not decay the points of the siblings.
RECURSIVE recursivePointsFlatSiblings(_, _)
recursivePointsFlatSiblings(h, e) ==
    IF e = Nil THEN 0
    ELSE Points(e) * Unit
         + Decay(recursivePointsFlatSiblings(h, h.child[e]))
         + recursivePointsFlatSiblings(h, h.sibling[e])

\* Traverses both sides of the tree starting from an Entry and sums the points
\* (the result is in units of 1/Unit).
RECURSIVE recursivePoints(_, _)
recursivePoints(h, e) ==
    IF e = Nil THEN 0
    ELSE Points(e) * Unit
         + Decay(recursivePoints(h, h.child[e]) + recursivePoints(h, h.sibling[e]))

\* The gravity of a fresh entry for every creation time.
GravityIgnoresAge(a) == [num |-> 28717, den |-> 1]

\* 1e8 / (Milli * (hours + 2)^1.8) as the fraction num / den:
\*   now:     2^1.8           = 3.4822     gives 28717
\*   twoDays: 50^1.8          = 1143.26    gives 87.47
\*   zero:    2562049.79^1.8  = 3.4313e11  gives 1 / 3431292
Gravity(a) ==
    CASE a = "now"     -> [num |-> 28717, den |-> 1]
      [] a = "twoDays" -> [num |-> 8747,  den |-> 100]
      [] a = "zero"    -> [num |-> 1,     den |-> 3431292]

\* The actual definition of a score: (points + childPoints + 1e-3) / gravity, held
\* as the exact numerator in units of 1/(Milli*Unit) and the entry's creation time.
score(e, childPoints) ==
    IF e = Nil THEN [num |-> 0, age |-> "now"]
    ELSE [num |-> Milli * ((upvotes[e] - downvotes[e]) * Unit + childPoints) + Unit,
          age |-> created[e]]

\* round(value, 8) = math.Trunc(1e8 * value) / 1e8, as the number of 1e-8 units.
round(value) ==
    LET g == Gravity(value.age)
        q == MulDiv(AbsVal(value.num), g.num, Unit * g.den)
    IN  IF value.num < 0 THEN -q ELSE q

\* Score taking an absent entry for a fresh entry without votes: the 1e-3 of
\* score() over the gravity.
ScoreOfFreshEntry(h, e) ==
    IF e = Nil THEN round([num |-> Unit, age |-> "now"])
    ELSE LET childPoints == IF h.child[e] # Nil
                            THEN Decay(recursivePoints(h, h.child[e]))
                            ELSE 0
         IN  round(score(e, childPoints))

\* Score determines sort order
Score(h, e) ==
    IF e = Nil THEN 0
    ELSE LET childPoints == IF h.child[e] # Nil
                            THEN Decay(recursivePoints(h, h.child[e]))
                            ELSE 0
         IN  round(score(e, childPoints))

\* Less that holds for equal scores as well.
LessOrEqual(h, e, cmp) == Score(h, e) <= Score(h, cmp)

\* Less with the comparison turned around.
LessFlipped(h, e, cmp) == Score(h, e) > Score(h, cmp)

Less(h, e, cmp) == Score(h, e) < Score(h, cmp)

(***************************************************************************)
(* Insertion                                                               *)
(***************************************************************************)

\* The three cases of addSibling that put newE above e
relink(h, e, newE) ==
    LET p == h.parent[e]
    IN  IF p = Nil
        THEN [h EXCEPT !.sibling[newE] = e, !.parent[e] = newE]
        ELSE IF e = h.child[p]
        THEN [h EXCEPT !.child[p] = newE, !.parent[newE] = p,
                       !.sibling[newE] = e, !.parent[e] = newE]
        ELSE [h EXCEPT !.sibling[p] = newE, !.parent[newE] = p,
                       !.sibling[newE] = e, !.parent[e] = newE]

\* Add a sibling to the specified node: the new element is inserted ABOVE the old
\* one, then the sibling the new element had is added back above it.
RECURSIVE addSibling(_, _, _)
addSibling(h, e, newE) ==
    IF newE = Nil THEN h
    ELSE LET newESib == h.sibling[newE]
         IN  addSibling(relink(h, e, newE), newE, newESib)

\* Whether the recursion of e.addSibling(newE) comes to an end: it does not when
\* a call meets the links and arguments of an earlier call again, and the
\* goroutine then dies of a stack overflow.
RECURSIVE addSiblingReturns(_, _, _, _)
addSiblingReturns(h, e, newE, seen) ==
    IF newE = Nil THEN TRUE
    ELSE IF <<h, e, newE>> \in seen THEN FALSE
    ELSE addSiblingReturns(relink(h, e, newE), newE, h.sibling[newE],
                           seen \cup {<<h, e, newE>>})

\* Whether e.AddChild(newE) comes to an end
AddChildReturns(h, e, newE) ==
    h.child[e] = Nil \/ addSiblingReturns(h, h.child[e], newE, {})

\* AddChild that links the new entry in front of the first child but leaves the
\* parent's child slot as it was.
AddChildKeepsSlot(h, e, newE) ==
    IF h.child[e] = Nil
    THEN [h EXCEPT !.child[e] = newE, !.parent[newE] = e]
    ELSE [h EXCEPT !.parent[newE] = e, !.sibling[newE] = h.child[e],
                   !.parent[h.child[e]] = newE]

\* Add a child node to the current entry
AddChild(h, e, newE) ==
    IF h.child[e] = Nil
    THEN [h EXCEPT !.child[e] = newE, !.parent[newE] = e]
    ELSE addSibling(h, h.child[e], newE)

(***************************************************************************)
(* Arrange                                                                 *)
(***************************************************************************)

\* Find the middle entry among a list of siblings (slow / fast pointers)
RECURSIVE getMiddleLoop(_, _, _)
getMiddleLoop(h, slow, fast) ==
    IF h.sibling[fast] # Nil /\ h.sibling[h.sibling[fast]] # Nil
    THEN getMiddleLoop(h, h.sibling[slow], h.sibling[h.sibling[fast]])
    ELSE slow

\* getMiddle that takes the first entry for the middle.
getMiddleFirst(h, e) == e

getMiddle(h, e) == IF e = Nil THEN e ELSE getMiddleLoop(h, e, e)

\* merge that leaves the sibling of curr as it is.
SetSiblingSkipped(h, curr, x) == h

\* curr.sibling = x, where curr may be the dummy head
SetSibling(h, curr, x) == IF curr = Dummy THEN h ELSE [h EXCEPT !.sibling[curr] = x]

\* The loop of merge and what follows it. head is dummyHead.Sibling(); cmps
\* lists, for every evaluation of b.Less(a), the two entries with the Score()
\* the call has found for them.
RECURSIVE mergeLoop(_, _, _, _, _, _)
mergeLoop(h, head, curr, a, b, cmps) ==
    IF a # Nil /\ b # Nil
    THEN LET seen == cmps \o << [e |-> b, score |-> Score(h, b)],
                                [e |-> a, score |-> Score(h, a)] >>
         IN  IF Less(h, b, a)
             THEN mergeLoop(SetSibling(h, curr, a), IF curr = Dummy THEN a ELSE head,
                            a, h.sibling[a], b, seen)
             ELSE mergeLoop(SetSibling(h, curr, b), IF curr = Dummy THEN b ELSE head,
                            b, a, h.sibling[b], seen)
    ELSE LET rest == IF a = Nil THEN b ELSE a
         IN  [h |-> SetSibling(h, curr, rest),
              ret |-> IF curr = Dummy THEN rest ELSE head,
              cmps |-> cmps]

\* Do the merge step of mergeSort, using the Less() method to sort siblings
merge(h, a, b) == mergeLoop(h, Nil, Dummy, a, b, <<>>)

\* The split that clears the parent of the last entry of the first half.
splitHalvesClearsMiddle(h, middle, sHalf) ==
    [h EXCEPT !.sibling[middle] = Nil, !.parent[middle] = Nil]

splitHalvesKeepsParent(h, middle, sHalf) == [h EXCEPT !.sibling[middle] = Nil]

\* middle.sibling, sHalf.parent = nil, nil
splitHalves(h, middle, sHalf) ==
    [h EXCEPT !.sibling[middle] = Nil, !.parent[sHalf] = Nil]

\* The number of entries of the sibling chain that starts at e
RECURSIVE chainLen(_, _, _)
chainLen(h, e, fuel) ==
    IF e = Nil \/ fuel = 0 THEN 0 ELSE 1 + chainLen(h, h.sibling[e], fuel - 1)

\* Do a mergeSort to put the siblings in order. calls lists, for every call
\* that splits its chain, the length of the chain, the lengths of the two
\* halves after the split, and the number of rounds of the loop of its merge.
RECURSIVE mergeSort(_, _)
mergeSort(h, e) ==
    IF e = Nil \/ h.sibling[e] = Nil THEN [h |-> h, ret |-> e, cmps |-> <<>>, calls |-> <<>>]
    ELSE LET middle == getMiddle(h, e)
             sHalf == h.sibling[middle]
             h1 == splitHalves(h, middle, sHalf)
             fst == mergeSort(h1, e)
             snd == mergeSort(fst.h, sHalf)
             m == merge(snd.h, fst.ret, snd.ret)
             N == Cardinality(DOMAIN h.sibling) + 1
         IN  [h |-> m.h, ret |-> m.ret, cmps |-> fst.cmps \o snd.cmps \o m.cmps,
              calls |-> << [n |-> chainLen(h, e, N),
                            first |-> chainLen(h1, e, N),
                            second |-> chainLen(h1, sHalf, N),
                            rounds |-> Len(m.cmps) \div 2] >>
                        \o fst.calls \o snd.calls]

\* The test of Arrange that starts the sort wherever an entry has a sibling.
SortsHereAnywhere(h, e) == h.sibling[e] # Nil

\* The test of Arrange for starting the sort at e
SortsHere(h, e) ==
    h.sibling[e] # Nil /\ (h.parent[e] = Nil \/ h.sibling[h.parent[e]] # e)

\* What Arrange(nil) and a branch of Arrange that is not taken leave behind
Untouched(h) ==
    [h |-> h, ret |-> Nil, sorts |-> <<>>, at |-> <<>>, cmps |-> <<>>, calls |-> <<>>]

\* Arrange that sorts the chain of an entry before it goes through the
\* children and the siblings.
RECURSIVE ArrangeTopDown(_, _)
ArrangeTopDown(h, e) ==
    IF e = Nil THEN Untouched(h)
    ELSE LET r == IF SortsHere(h, e) THEN mergeSort(h, e)
                  ELSE [h |-> h, ret |-> e, cmps |-> <<>>, calls |-> <<>>]
             top == r.ret
             c == IF r.h.child[top] # Nil THEN ArrangeTopDown(r.h, r.h.child[top])
                  ELSE Untouched(r.h)
             h1 == IF r.h.child[top] # Nil THEN [c.h EXCEPT !.child[top] = c.ret] ELSE r.h
             s == IF h1.sibling[top] # Nil THEN ArrangeTopDown(h1, h1.sibling[top])
                  ELSE Untouched(h1)
             h2 == IF h1.sibling[top] # Nil THEN [s.h EXCEPT !.sibling[top] = s.ret] ELSE h1
         IN  [h |-> h2, ret |-> top,
              sorts |-> (IF SortsHere(h, e) THEN <<e>> ELSE <<>>) \o c.sorts \o s.sorts,
              at |-> (IF SortsHere(h, e) THEN <<h>> ELSE <<>>) \o c.at \o s.at,
              cmps |-> r.cmps \o c.cmps \o s.cmps,
              calls |-> r.calls \o c.calls \o s.calls]

\* Return an ordered *Entry tree. Besides the links (h) and the entry returned
\* (ret), sorts lists the entries at which the calls of Arrange have started
\* mergeSort, in the order of the calls, at the links as they were at each of
\* these calls, cmps the comparisons of all the sorts and calls their splits.
RECURSIVE Arrange(_, _)
Arrange(h, e) ==
    IF e = Nil THEN Untouched(h)
    ELSE LET c == IF h.child[e] # Nil THEN Arrange(h, h.child[e]) ELSE Untouched(h)
             h1 == IF h.child[e] # Nil THEN [c.h EXCEPT !.child[e] = c.ret] ELSE h
             s == IF h1.sibling[e] # Nil THEN Arrange(h1, h1.sibling[e]) ELSE Untouched(h1)
             h2 == IF h1.sibling[e] # Nil THEN [s.h EXCEPT !.sibling[e] = s.ret] ELSE h1
         IN  IF SortsHere(h2, e)
             THEN LET r == mergeSort(h2, e)
                  IN  [h |-> r.h, ret |-> r.ret,
                       sorts |-> c.sorts \o s.sorts \o <<e>>,
                       at |-> c.at \o s.at \o <<h2>>,
                       cmps |-> c.cmps \o s.cmps \o r.cmps,
                       calls |-> c.calls \o s.calls \o r.calls]
             ELSE [h |-> h2, ret |-> e,
                   sorts |-> c.sorts \o s.sorts,
                   at |-> c.at \o s.at,
                   cmps |-> c.cmps \o s.cmps,
                   calls |-> c.calls \o s.calls]

\* walk of the tests: the entry, then its children, then its siblings. The fuel
\* bounds the depth, so that the walk is defined on any heap.
RECURSIVE walkFrom(_, _, _)
walkFrom(h, e, fuel) ==
    IF e = Nil \/ fuel = 0 THEN <<>>
    ELSE <<e>> \o walkFrom(h, h.child[e], fuel - 1) \o walkFrom(h, h.sibling[e], fuel - 1)

walk(h, e) == walkFrom(h, e, Cardinality(DOMAIN h.child) + 1)

\* The entry without a parent that the Parent() links lead to from e.
RECURSIVE topFrom(_, _, _)
topFrom(h, e, fuel) ==
    IF h.parent[e] = Nil \/ fuel = 0 THEN e ELSE topFrom(h, h.parent[e], fuel - 1)

TopOf(h, e) == topFrom(h, e, Cardinality(DOMAIN h.child))

\* Returns the root of a tree
Root(h, e) == IF h.parent[e] = Nil THEN e ELSE h.parent[e]

(***************************************************************************)
(* The tree engine as the tests drive it: a root entry, AddChild of new    *)
(* entries, then Arrange (entry_test.go).                                  *)
(***************************************************************************)

RECURSIVE sumVotesOf(_, _, _)
sumVotesOf(up, down, n) ==
    IF n = 0 THEN 0 ELSE up[n] + down[n] + sumVotesOf(up, down, n - 1)

\* The votes cast on all entries together.
TotalVotesOf(up, down) == sumVotesOf(up, down, Cardinality(DOMAIN up))

RECURSIVE SumVotes(_)
SumVotes(n) == IF n = 0 THEN 0 ELSE upvotes[n] + downvotes[n] + SumVotes(n - 1)

TotalVotes == SumVotes(alloc)

\* No call of getEntries is under way, no scoring function has been called.
NoRequest == [root |-> Nil, flag |-> "none"]
NoProbe == [fn |-> "none", arg |-> Nil, ret |-> 0]
NoRun == [fn |-> "none", N |-> 0, pc |-> 0, i |-> 0]

\* No entry has been persisted: both tables are empty, the sequence of entry.id
\* is at its start, and no Persist has run: none has failed at a step, ended a
\* transaction, or returned.
EmptyDb ==
    [entries |-> {}, closures |-> {}, nextId |-> 1, parentOf |-> <<>>,
     failed |-> "none", tx |-> "none", err |-> "none"]

\* The memoization fields of the entries S as New() and &Entry{...} leave them
NoMemo(S) ==
    /\ childCount = [n \in S |-> 0]
    /\ hasChildCount = [n \in S |-> FALSE]
    /\ db = EmptyDb

IdleDb ==
    /\ request = NoRequest
    /\ rows = <<>>
    /\ relationships = <<>>
    /\ pos = 0
    /\ result = "none"

\* x := &Entry{Upvotes: u, Downvotes: d, Created: a}
InitEngine ==
    /\ IdleDb
    /\ probe = NoProbe
    /\ run = NoRun
    /\ NoMemo(Nodes)
    /\ parent = [n \in Nodes |-> Nil]
    /\ child = [n \in Nodes |-> Nil]
    /\ sibling = [n \in Nodes |-> Nil]
    /\ \E u \in 0..MaxVotes, d \in 0..MaxVotes :
          /\ u + d <= MaxVotes
          /\ upvotes = [n \in Nodes |-> IF n = 1 THEN u ELSE 0]
          /\ downvotes = [n \in Nodes |-> IF n = 1 THEN d ELSE 0]
    /\ \E a \in Ages : created = [n \in Nodes |-> IF n = 1 THEN a ELSE "now"]
    /\ alloc = 1
    /\ root = 1
    /\ stage = "built"

SetHeap(h) ==
    /\ parent' = h.parent
    /\ child' = h.child
    /\ sibling' = h.sibling

\* The entry &Entry{Upvotes: u, Downvotes: d, Created: a} is allocated as alloc + 1
NewEntry(u, d, a) ==
    /\ alloc < MaxNodes
    /\ TotalVotes + u + d <= MaxVotes
    /\ alloc' = alloc + 1
    /\ upvotes' = [upvotes EXCEPT ![alloc + 1] = u]
    /\ downvotes' = [downvotes EXCEPT ![alloc + 1] = d]
    /\ created' = [created EXCEPT ![alloc + 1] = a]

\* p.AddChild(&Entry{Upvotes: u, Downvotes: d, Created: a})
AddChildStep(p, u, d, a) ==
    /\ Allocated(p)
    /\ stage = "built" /\ probe = NoProbe
    /\ NewEntry(u, d, a)
    /\ SetHeap(AddChild(Heap, p, alloc + 1))
    /\ UNCHANGED <<root, stage, dbVars, probe, run, memoVars, db>>

\* x = Arrange(x)
ArrangeStep ==
    /\ stage \in {"built", "arranged"}
    /\ LET r == Arrange(Heap, root)
       IN  /\ SetHeap(r.h)
           /\ root' = r.ret
    /\ stage' = IF stage = "built" THEN "arranged" ELSE "rearranged"
    /\ UNCHANGED <<upvotes, downvotes, created, alloc, dbVars, probe, run, memoVars, db>>

NextEngine ==
    \/ \E p \in Nodes, u \in 0..MaxVotes, d \in 0..MaxVotes, a \in Ages :
          AddChildStep(p, u, d, a)
    \/ ArrangeStep

Spec == InitEngine /\ [][NextEngine]_vars

\* e.addSibling(&Entry{Upvotes: u, Downvotes: d, Created: a}), called directly
AddSiblingStep(e, u, d, a) ==
    /\ Allocated(e)
    /\ stage = "built"
    /\ NewEntry(u, d, a)
    /\ SetHeap(addSibling(Heap, e, alloc + 1))
    /\ UNCHANGED <<root, stage, dbVars, probe, run, memoVars, db>>

\* Insertion alone: AddChild and addSibling in any sequence.
NextInsert ==
    \/ \E p \in Nodes, u \in 0..MaxVotes, d \in 0..MaxVotes, a \in Ages :
          AddChildStep(p, u, d, a)
    \/ \E e \in Nodes, u \in 0..MaxVotes, d \in 0..MaxVotes, a \in Ages :
          AddSiblingStep(e, u, d, a)

SpecInsert == InitEngine /\ [][NextInsert]_vars

(***************************************************************************)
(* Materialization: getEntries builds the tree from the rows of the query  *)
(* and arranges it (entry_db.go).                                          *)
(***************************************************************************)

\* An id that is not a key of the entries map.
MissingId == MaxNodes + 1

Flags == {"AllDescendants", "AllAncestors", "DepthOneDescendants"}

\* The entry the first column leads to from id i, following the rows.
RECURSIVE followAncestors(_, _, _)
followAncestors(anc, i, fuel) ==
    IF fuel = 0 \/ i \notin DOMAIN anc \/ anc[i] = i THEN i
    ELSE followAncestors(anc, anc[i], fuel - 1)

\* What the three queries can return for the root r, as the first column of the
\* row of every id: the row of r names r itself, every other row names the entry
\* one level up (depth = 1), or an id that has no row if the closure table is
\* damaged; the rows of AllAncestors form a path, those of DepthOneDescendants
\* all name r. The ids are numbered in the order of the rows.
QueryResult(k, r, f, anc) ==
    /\ anc[r] = r
    /\ \A i \in 1..k : i # r => anc[i] # i /\ (anc[i] <= k \/ anc[i] = MissingId)
    /\ \A i \in 1..k : followAncestors(anc, i, k) \in {r, MissingId}
    /\ f = "DepthOneDescendants" => \A i \in 1..k : anc[i] = r
    /\ f = "AllAncestors" =>
          \A i, j \in 1..k : (i # j /\ anc[i] = anc[j]) => anc[i] = MissingId

\* entries[id]
Entries(id) == IF Allocated(id) THEN id ELSE Nil

\* The construction loop skips no pair.
SkipsPairNever(rel) == FALSE

\* The pair is skipped by the construction loop.
SkipsPair(rel) == rel.Parent = rel.Child

\* getRoot of the flag
getRoot(h) ==
    IF request.flag = "AllAncestors"
    THEN Root(h, Entries(request.root))
    ELSE request.root

\* getEntries(r, f, user) has run its query; the rows are about to be scanned.
\* The votes of the request fall on one entry, and the entries are of one age.
InitMat ==
    /\ parent = [n \in Nodes |-> Nil]
    /\ child = [n \in Nodes |-> Nil]
    /\ sibling = [n \in Nodes |-> Nil]
    /\ alloc = 0
    /\ root = Nil
    /\ stage = "built"
    /\ probe = NoProbe
    /\ run = NoRun
    /\ NoMemo(Nodes)
    /\ relationships = <<>>
    /\ pos = 0
    /\ result = "none"
    /\ \E k \in 1..MaxNodes, r \in 1..MaxNodes, f \in Flags :
          /\ r <= k
          /\ request = [root |-> r, flag |-> f]
          /\ \E anc \in [1..k -> 1..MissingId] :
                /\ QueryResult(k, r, f, anc)
                /\ rows = [i \in 1..k |-> <<anc[i], i>>]
          /\ \E v \in 1..k, u \in 0..MaxVotes, d \in 0..MaxVotes :
                /\ u + d <= MaxVotes
                /\ upvotes = [n \in Nodes |-> IF n = v THEN u ELSE 0]
                /\ downvotes = [n \in Nodes |-> IF n = v THEN d ELSE 0]
    /\ \E a \in Ages : created = [n \in Nodes |-> a]

\* The loop over rows.Next(): entries[e.Id] = e and one relationship per row.
ScanRows ==
    /\ result = "none" /\ request.flag \in Flags
    /\ alloc' = Len(rows)
    /\ relationships' = [i \in 1..Len(rows) |-> [Parent |-> rows[i][1], Child |-> rows[i][2]]]
    /\ pos' = 1
    /\ result' = "building"
    /\ UNCHANGED <<parent, child, sibling, upvotes, downvotes, created, root, stage,
                   request, rows, probe, run, memoVars, db>>

\* One round of the loop that constructs the full Entry.
LinkStep ==
    /\ result = "building" /\ pos <= Len(relationships)
    /\ LET rel == relationships[pos]
       IN  IF SkipsPair(rel)
           THEN /\ pos' = pos + 1
                /\ UNCHANGED <<parent, child, sibling, result>>
           ELSE IF Entries(rel.Parent) = Nil
           THEN \* AddChild on a nil *Entry: e.child is a nil pointer dereference
                /\ result' = "panic"
                /\ UNCHANGED <<parent, child, sibling, pos>>
           ELSE /\ SetHeap(AddChild(Heap, Entries(rel.Parent), Entries(rel.Child)))
                /\ pos' = pos + 1
                /\ UNCHANGED result
    /\ UNCHANGED <<upvotes, downvotes, created, alloc, root, stage, request, rows,
                   relationships, probe, run, memoVars, db>>

\* return Arrange(entries[getRoot(entries, root)]), nil
ReturnStep ==
    /\ result = "building" /\ pos > Len(relationships)
    /\ LET r == Arrange(Heap, Entries(getRoot(Heap)))
       IN  /\ SetHeap(r.h)
           /\ root' = r.ret
    /\ result' = "returned"
    /\ stage' = "arranged"
    /\ UNCHANGED <<upvotes, downvotes, created, alloc, request, rows, relationships,
                   pos, probe, run, memoVars, db>>

NextMat == ScanRows \/ LinkStep \/ ReturnStep

SpecMat == InitMat /\ [][NextMat]_vars

(***************************************************************************)
(* The test functions of entry_test.go: makeUnsortedTree, then TestTree or *)
(* one of the three benchmarks.                                            *)
(***************************************************************************)

\* The entries of makeUnsortedTree: Root, Depth 1 #4, Depth 1 #3, Depth 1 #1,
\* Depth 2 #2, Depth 2 #1, Depth 1 #2, numbered as they are allocated.
ScenarioNodes == 7

\* Largest b.N of a benchmark run
MaxBench == 2

TestNodes == 1..(ScenarioNodes + MaxBench)

TestFunctions ==
    {"TestTree", "BenchmarkTreeDescendingScore", "BenchmarkTreeFlatScore",
     "BenchmarkTreeAscendingScore"}

\* The statements of makeUnsortedTree before its Arrange: the entry allocated
\* with its Upvotes, and the receiver of AddChild (Nil: x := or x2 := alone).
\* x.AddChild(x2) allocates nothing.
makeUnsortedTree ==
    << [recv |-> Nil, arg |-> 1, Upvotes |-> 0],
       [recv |-> 1, arg |-> 2, Upvotes |-> 0],
       [recv |-> 1, arg |-> 3, Upvotes |-> 1],
       [recv |-> Nil, arg |-> 4, Upvotes |-> 2],
       [recv |-> 4, arg |-> 5, Upvotes |-> 9],
       [recv |-> 4, arg |-> 6, Upvotes |-> 10],
       [recv |-> 1, arg |-> 4, Upvotes |-> 2],
       [recv |-> 1, arg |-> 7, Upvotes |-> 3] >>

\* A test function starts. Its literals &Entry{...} leave Created at the zero
\* time.Time; the other classes of age stand for the same entries created at
\* one other time.
InitScenario ==
    /\ IdleDb
    /\ probe = NoProbe
    /\ NoMemo(TestNodes)
    /\ parent = [n \in TestNodes |-> Nil]
    /\ child = [n \in TestNodes |-> Nil]
    /\ sibling = [n \in TestNodes |-> Nil]
    /\ upvotes = [n \in TestNodes |-> 0]
    /\ downvotes = [n \in TestNodes |-> 0]
    /\ \E a \in {"zero", "now", "twoDays"} : created = [n \in TestNodes |-> a]
    /\ alloc = 0
    /\ root = Nil
    /\ stage = "built"
    /\ \E fn \in TestFunctions, N \in 0..MaxBench :
          /\ fn = "TestTree" => N = 0
          /\ run = [fn |-> fn, N |-> N, pc |-> 0, i |-> 0]

\* One statement of makeUnsortedTree before its Arrange
MakeUnsortedTreeStep ==
    /\ run.pc < Len(makeUnsortedTree)
    /\ LET s == makeUnsortedTree[run.pc + 1]
       IN  /\ upvotes' = [upvotes EXCEPT ![s.arg] = s.Upvotes]
           /\ alloc' = IF s.arg > alloc THEN s.arg ELSE alloc
           /\ root' = IF root = Nil THEN s.arg ELSE root
           /\ IF s.recv = Nil
              THEN UNCHANGED <<parent, child, sibling>>
              ELSE SetHeap(AddChild(Heap, s.recv, s.arg))
    /\ run' = [run EXCEPT !.pc = run.pc + 1]
    /\ UNCHANGED <<downvotes, created, stage, dbVars, probe, memoVars, db>>

\* x = Arrange(x); return x
MakeUnsortedTreeArrange ==
    /\ run.pc = Len(makeUnsortedTree) /\ stage = "built"
    /\ LET r == Arrange(Heap, root)
       IN  /\ SetHeap(r.h)
           /\ root' = r.ret
    /\ stage' = "arranged"
    /\ UNCHANGED <<upvotes, downvotes, created, alloc, dbVars, probe, run, memoVars, db>>

\* TestTree: x = Arrange(x)
TestTreeArrange ==
    /\ run.fn = "TestTree" /\ stage = "arranged"
    /\ LET r == Arrange(Heap, root)
       IN  /\ SetHeap(r.h)
           /\ root' = r.ret
    /\ stage' = "rearranged"
    /\ UNCHANGED <<upvotes, downvotes, created, alloc, dbVars, probe, run, memoVars, db>>

\* A benchmark: x.AddChild(&Entry{...}) of round i
BenchmarkAddChild ==
    /\ run.fn # "TestTree" /\ stage = "arranged" /\ run.i < run.N
    /\ alloc' = alloc + 1
    /\ upvotes' = [upvotes EXCEPT ![alloc + 1] =
                      IF run.fn = "BenchmarkTreeAscendingScore" THEN run.i ELSE 0]
    /\ downvotes' = [downvotes EXCEPT ![alloc + 1] =
                        IF run.fn = "BenchmarkTreeDescendingScore" THEN run.i ELSE 0]
    /\ SetHeap(AddChild(Heap, root, alloc + 1))
    /\ run' = [run EXCEPT !.i = run.i + 1]
    /\ UNCHANGED <<created, root, stage, dbVars, probe, memoVars, db>>

\* A benchmark: x = Arrange(x) after the loop
BenchmarkArrange ==
    /\ run.fn # "TestTree" /\ stage = "arranged" /\ run.i = run.N
    /\ LET r == Arrange(Heap, root)
       IN  /\ SetHeap(r.h)
           /\ root' = r.ret
    /\ stage' = "rearranged"
    /\ UNCHANGED <<upvotes, downvotes, created, alloc, dbVars, probe, run, memoVars, db>>

NextScenario ==
    \/ MakeUnsortedTreeStep
    \/ MakeUnsortedTreeArrange
    \/ TestTreeArrange
    \/ BenchmarkAddChild
    \/ BenchmarkArrange

SpecScenario == InitScenario /\ [][NextScenario]_vars

(***************************************************************************)
(* Calls of the scoring functions, on an entry of a tree or on nil.        *)
(***************************************************************************)

ScoringFunctions == {"Points", "Score", "recursivePoints"}

\* What the call fn(e) returns
Call(fn, e) ==
    CASE fn = "Points" -> Points(e)
      [] fn = "Score" -> Score(Heap, e)
      [] fn = "recursivePoints" -> recursivePoints(Heap, e)

\* e.Points(), e.Score() or e.recursivePoints(), where e may be nil
ProbeStep(fn, e) ==
    /\ probe = NoProbe
    /\ e = Nil \/ Allocated(e)
    /\ probe' = [fn |-> fn, arg |-> e, ret |-> Call(fn, e)]
    /\ UNCHANGED <<engineVars, dbVars, run, memoVars, db>>

NextScore ==
    \/ \E p \in Nodes, u \in 0..MaxVotes, d \in 0..MaxVotes, a \in Ages :
          AddChildStep(p, u, d, a)
    \/ \E fn \in ScoringFunctions, e \in Ref : ProbeStep(fn, e)

SpecScore == InitEngine /\ [][NextScore]_vars

(***************************************************************************)
(* Entries of different ages in one tree.                                  *)
(***************************************************************************)

\* Largest number of entries of a tree whose entries all have votes of their own
MaxAged == 3

\* The creation times Gravity knows, from the youngest to the oldest.
AllAges == <<"now", "twoDays", "zero">>

\* Entry a was created later than entry b.
Younger(a, b) ==
    \E i, j \in 1..Len(AllAges) :
        i < j /\ AllAges[i] = created[a] /\ AllAges[j] = created[b]

\* x := &Entry{Upvotes: u, Downvotes: d, Created: a} with a of any age
InitClock ==
    /\ IdleDb
    /\ probe = NoProbe
    /\ run = NoRun
    /\ NoMemo(Nodes)
    /\ parent = [n \in Nodes |-> Nil]
    /\ child = [n \in Nodes |-> Nil]
    /\ sibling = [n \in Nodes |-> Nil]
    /\ \E u \in 0..MaxVotes, d \in 0..MaxVotes :
          /\ u + d <= MaxVotes
          /\ upvotes = [n \in Nodes |-> IF n = 1 THEN u ELSE 0]
          /\ downvotes = [n \in Nodes |-> IF n = 1 THEN d ELSE 0]
    /\ \E i \in 1..Len(AllAges) :
          created = [n \in Nodes |-> IF n = 1 THEN AllAges[i] ELSE "now"]
    /\ alloc = 1
    /\ root = 1
    /\ stage = "built"

\* p.AddChild(&Entry{Upvotes: u, Downvotes: d, Created: a}), every entry with
\* votes of its own
AddChildAged(p, u, d, a) ==
    /\ Allocated(p)
    /\ alloc < MaxAged
    /\ u + d <= MaxVotes
    /\ alloc' = alloc + 1
    /\ upvotes' = [upvotes EXCEPT ![alloc + 1] = u]
    /\ downvotes' = [downvotes EXCEPT ![alloc + 1] = d]
    /\ created' = [created EXCEPT ![alloc + 1] = a]
    /\ SetHeap(AddChild(Heap, p, alloc + 1))
    /\ UNCHANGED <<root, stage, dbVars, probe, run, memoVars, db>>

NextClock ==
    \E p \in Nodes, u \in 0..MaxVotes, d \in 0..MaxVotes, i \in 1..Len(AllAges) :
        AddChildAged(p, u, d, AllAges[i])

SpecClock == InitClock /\ [][NextClock]_vars

(***************************************************************************)
(* Counting the entries below an entry.                                    *)
(***************************************************************************)

\* recursiveCount that follows the child links alone.
RECURSIVE recursiveCountOfFirstChildren(_, _)
recursiveCountOfFirstChildren(h, e) ==
    IF e = Nil THEN 0 ELSE 1 + recursiveCountOfFirstChildren(h, h.child[e])

RECURSIVE recursiveCount(_, _)
recursiveCount(h, e) ==
    IF e = Nil THEN 0
    ELSE 1 + recursiveCount(h, h.child[e]) + recursiveCount(h, h.sibling[e])

\* e.ChildCount(): the count is stored in childCount when hasChildCount is
\* false, and hasChildCount is left as it is.
ChildCountStep(e) ==
    /\ Allocated(e)
    /\ probe.fn \in {"none", "ChildCount"}
    /\ childCount' = IF ~hasChildCount[e]
                     THEN [childCount EXCEPT ![e] = recursiveCount(Heap, child[e])]
                     ELSE childCount
    /\ probe' = [fn |-> "ChildCount", arg |-> e, ret |-> childCount'[e]]
    /\ UNCHANGED <<engineVars, dbVars, run, hasChildCount, db>>

\* The entries added are &Entry{}: votes and ages do not enter the count.
NextCount ==
    \/ \E p \in Nodes : AddChildStep(p, 0, 0, "zero")
    \/ \E e \in Nodes : ChildCountStep(e)

SpecCount == InitEngine /\ [][NextCount]_vars

(***************************************************************************)
(* Persist: an entry is stored and its ancestry is added to the closure    *)
(* table (entry_db.go, queries.EntryClosureTableCreate).                   *)
(***************************************************************************)

\* Largest value of the sequence behind entry.id
MaxEntries == 4

\* The parentId arguments: 0 (no parent) and ids that may or may not exist.
ParentIds == 0..(MaxEntries + 1)

\* How a call of Persist goes: the validation fails, Begin fails (its error is
\* not looked at), one of the four database steps fails, Commit fails (its
\* error is not looked at), or all succeed.
Outcomes ==
    {"emptyBody", "beginFails", "prepareCreateFails", "createFails",
     "prepareClosureFails", "closureFails", "commitFails", "ok"}

\* The closure insert without the rows of the parent.
EntryClosureTableCreateSelfOnly(closures, id, parentId) == {<<id, id, 0>>}

\* The rows that INSERT INTO entry_closures ... adds for $1 = id, $2 = parentId:
\* the self row at depth 0, united with one row per row of the parent.
EntryClosureTableCreate(closures, id, parentId) ==
    {<<id, id, 0>>} \cup {<<r[1], id, r[3] + 1>> : r \in {c \in closures : c[2] = parentId}}

\* tx.Rollback() that stores what the transaction has written.
RollbackStores(d, written) ==
    [d EXCEPT !.entries = d.entries \cup written.entries,
              !.closures = d.closures \cup written.closures,
              !.tx = "rolledBack"]

\* tx.Rollback(): the rows the transaction has written are dropped
Rollback(d, written) == [d EXCEPT !.tx = "rolledBack"]

\* tx.Commit(): the rows the transaction has written are stored
Commit(d, written) ==
    [d EXCEPT !.entries = d.entries \cup written.entries,
              !.closures = d.closures \cup written.closures,
              !.tx = "committed"]

\* e.Persist(parentId). written holds the rows the statements of the
\* transaction have inserted when the call ends it. The sequence of entry.id
\* keeps every value it has handed out, whatever becomes of the transaction.
PersistStep(parentId, outcome) ==
    /\ db.nextId <= MaxEntries
    /\ LET id == db.nextId
           written ==
               [entries |-> IF outcome \in {"prepareClosureFails", "closureFails",
                                            "commitFails", "ok"}
                            THEN {id} ELSE {},
                closures |-> IF outcome \in {"commitFails", "ok"}
                             THEN EntryClosureTableCreate(db.closures, id, parentId)
                             ELSE {}]
       IN  CASE outcome = "emptyBody" ->
                    db' = [db EXCEPT !.failed = outcome, !.tx = "none", !.err = "error"]
             [] outcome = "beginFails" ->
                    \* tx is nil: tx.Prepare is a nil pointer dereference
                    db' = [db EXCEPT !.failed = outcome, !.tx = "none", !.err = "panic"]
             [] outcome = "prepareCreateFails" ->
                    db' = [Rollback(db, written) EXCEPT !.failed = outcome, !.err = "error"]
             [] outcome = "createFails" ->
                    \E n \in {id, id + 1} :
                        db' = [Rollback(db, written) EXCEPT !.failed = outcome,
                                                            !.err = "error", !.nextId = n]
             [] outcome \in {"prepareClosureFails", "closureFails"} ->
                    db' = [Rollback(db, written) EXCEPT !.failed = outcome,
                                                        !.err = "error", !.nextId = id + 1]
             [] outcome = "commitFails" ->
                    db' = [db EXCEPT !.failed = outcome, !.tx = "aborted",
                                     !.err = "nil", !.nextId = id + 1]
             [] outcome = "ok" ->
                    db' = [Commit(db, written) EXCEPT
                              !.failed = "none", !.err = "nil", !.nextId = id + 1,
                              !.parentOf = [e \in db.entries \cup {id} |->
                                              IF e # id THEN db.parentOf[e]
                                              ELSE IF parentId \in db.entries THEN parentId
                                              ELSE 0]]
    /\ UNCHANGED <<engineVars, dbVars, probe, run, memoVars>>

NextPersist == \E parentId \in ParentIds, outcome \in Outcomes : PersistStep(parentId, outcome)

\* e := New() is to be persisted; the tables are empty.
InitPersist ==
    /\ IdleDb
    /\ probe = NoProbe
    /\ run = NoRun
    /\ NoMemo(Nodes)
    /\ parent = [n \in Nodes |-> Nil]
    /\ child = [n \in Nodes |-> Nil]
    /\ sibling = [n \in Nodes |-> Nil]
    /\ upvotes = [n \in Nodes |-> 0]
    /\ downvotes = [n \in Nodes |-> 0]
    /\ created = [n \in Nodes |-> "now"]
    /\ alloc = 1
    /\ root = 1
    /\ stage = "built"

SpecPersist == InitPersist /\ [][NextPersist]_vars

(***************************************************************************)
(* Insertion of entries that already head a chain of their own.            *)
(***************************************************************************)

\* The first entry of the sibling chain that e is in, by the sibling links.
RECURSIVE chainHead(_, _, _)
chainHead(h, e, fuel) ==
    IF fuel = 0 \/ ~(\E q \in DOMAIN h.sibling : h.sibling[q] = e) THEN e
    ELSE chainHead(h, CHOOSE q \in DOMAIN h.sibling : h.sibling[q] = e, fuel - 1)

\* The entries of the sibling chain that starts at e, in order.
RECURSIVE siblingsFrom(_, _, _)
siblingsFrom(h, e, fuel) ==
    IF e = Nil \/ fuel = 0 THEN <<>> ELSE <<e>> \o siblingsFrom(h, h.sibling[e], fuel - 1)

\* The sibling chain that e is in, from its first entry.
ChainOf(h, e) ==
    siblingsFrom(h, chainHead(h, e, Cardinality(DOMAIN h.sibling)),
                 Cardinality(DOMAIN h.sibling) + 1)

\* newE is the first entry of a sibling chain that e is not in.
HeadsOtherChain(h, e, newE) ==
    /\ newE # e
    /\ chainHead(h, newE, Cardinality(DOMAIN h.sibling)) = newE
    /\ \A i \in 1..Len(ChainOf(h, newE)) : ChainOf(h, newE)[i] # e

\* x := &Entry{}
AllocStep ==
    /\ alloc < MaxNodes /\ stage = "built"
    /\ alloc' = alloc + 1
    /\ probe' = NoProbe
    /\ UNCHANGED <<parent, child, sibling, upvotes, downvotes, created, root, stage,
                   dbVars, run, memoVars, db>>

\* e.addSibling(newE) for entries that exist, newE at the head of its chain
LinkSiblingStep(e, newE) ==
    /\ Allocated(e) /\ Allocated(newE)
    /\ stage = "built"
    /\ HeadsOtherChain(Heap, e, newE)
    /\ probe' = [fn |-> "addSibling", arg |-> e, ret |-> newE]
    /\ IF addSiblingReturns(Heap, e, newE, {})
       THEN SetHeap(addSibling(Heap, e, newE)) /\ UNCHANGED stage
       ELSE stage' = "overflow" /\ UNCHANGED <<parent, child, sibling>>
    /\ UNCHANGED <<upvotes, downvotes, created, alloc, root, dbVars, run,
                   memoVars, db>>

\* p.AddChild(newE) for entries that exist, newE at the head of its chain and
\* without a parent
LinkChildStep(p, newE) ==
    /\ Allocated(p) /\ Allocated(newE)
    /\ parent[newE] = Nil
    /\ TopOf(Heap, p) # newE
    /\ stage = "built"
    /\ HeadsOtherChain(Heap, p, newE)
    /\ probe' = [fn |-> "AddChild", arg |-> p, ret |-> newE]
    /\ IF AddChildReturns(Heap, p, newE)
       THEN SetHeap(AddChild(Heap, p, newE)) /\ UNCHANGED stage
       ELSE stage' = "overflow" /\ UNCHANGED <<parent, child, sibling>>
    /\ UNCHANGED <<upvotes, downvotes, created, alloc, root, dbVars, run,
                   memoVars, db>>

NextChain ==
    \/ AllocStep
    \/ \E e \in Nodes, newE \in Nodes : LinkSiblingStep(e, newE)
    \/ \E p \in Nodes, newE \in Nodes : LinkChildStep(p, newE)

SpecChain == InitPersist /\ [][NextChain]_vars

(***************************************************************************)
(* Trees of more entries, every entry with upvotes of its own, all created *)
(* at one time.                                                            *)
(***************************************************************************)

\* Largest number of entries of such a tree
MaxDeep == 5

DeepNodes == 1..MaxDeep

\* x := &Entry{Created: time.Now()}
InitDeep ==
    /\ IdleDb
    /\ probe = NoProbe
    /\ run = NoRun
    /\ NoMemo(DeepNodes)
    /\ parent = [n \in DeepNodes |-> Nil]
    /\ child = [n \in DeepNodes |-> Nil]
    /\ sibling = [n \in DeepNodes |-> Nil]
    /\ upvotes = [n \in DeepNodes |-> 0]
    /\ downvotes = [n \in DeepNodes |-> 0]
    /\ created = [n \in DeepNodes |-> "now"]
    /\ alloc = 1
    /\ root = 1
    /\ stage = "built"

\* p.AddChild(&Entry{Upvotes: u, Created: time.Now()})
AddChildVoted(p, u) ==
    /\ p \in 1..alloc
    /\ alloc < MaxDeep
    /\ stage = "built"
    /\ alloc' = alloc + 1
    /\ upvotes' = [upvotes EXCEPT ![alloc + 1] = u]
    /\ SetHeap(AddChild(Heap, p, alloc + 1))
    /\ UNCHANGED <<downvotes, created, root, stage, dbVars, probe, run, memoVars, db>>

NextDeep ==
    \/ \E p \in DeepNodes, u \in 0..MaxVotes : AddChildVoted(p, u)
    \/ ArrangeStep

SpecDeep == InitDeep /\ [][NextDeep]_vars

(***************************************************************************)
(* The tree of tree.go, whose AddChild keeps the children of an element in *)
(* the order of their points.                                              *)
(***************************************************************************)

\* addSibling of tree.go that puts a new element above an old one of the same
\* points.
RECURSIVE TreeAddSiblingAboveEqual(_, _, _, _)
TreeAddSiblingAboveEqual(h, pts, e, newE) ==
    IF newE = Nil THEN h
    ELSE IF pts[newE] < pts[e]
    THEN IF h.sibling[e] = Nil
         THEN [h EXCEPT !.parent[newE] = e, !.sibling[e] = newE]
         ELSE TreeAddSiblingAboveEqual(h, pts, h.sibling[e], newE)
    ELSE LET newESib == h.sibling[newE]
             p == h.parent[e]
             h1 == IF e = h.child[p]
                   THEN [h EXCEPT !.child[p] = newE, !.parent[newE] = p,
                                  !.sibling[newE] = e, !.parent[e] = newE]
                   ELSE [h EXCEPT !.sibling[p] = newE, !.parent[newE] = p,
                                  !.sibling[newE] = e, !.parent[e] = newE]
         IN  TreeAddSiblingAboveEqual(h1, pts, newE, newESib)

\* (e *Tree) addSibling(newE): pts[x] is x.Value.Points(). The new element goes
\* BELOW the old one when it has no more points, else ABOVE it. e.parent is
\* read without a test for nil.
RECURSIVE TreeAddSibling(_, _, _, _)
TreeAddSibling(h, pts, e, newE) ==
    IF newE = Nil THEN h
    ELSE IF pts[newE] <= pts[e]
    THEN IF h.sibling[e] = Nil
         THEN [h EXCEPT !.parent[newE] = e, !.sibling[e] = newE]
         ELSE TreeAddSibling(h, pts, h.sibling[e], newE)
    ELSE LET newESib == h.sibling[newE]
             p == h.parent[e]
             h1 == IF e = h.child[p]
                   THEN [h EXCEPT !.child[p] = newE, !.parent[newE] = p,
                                  !.sibling[newE] = e, !.parent[e] = newE]
                   ELSE [h EXCEPT !.sibling[p] = newE, !.parent[newE] = p,
                                  !.sibling[newE] = e, !.parent[e] = newE]
         IN  TreeAddSibling(h1, pts, newE, newESib)

\* (e *Tree) AddChild(newE)
TreeAddChild(h, pts, e, newE) ==
    IF h.child[e] = Nil
    THEN [h EXCEPT !.child[e] = newE, !.parent[newE] = e]
    ELSE TreeAddSibling(h, pts, h.child[e], newE)

\* p.AddChild(New(Entry{Upvotes: u}))
TreeAddChildStep(p, u) ==
    /\ p \in 1..alloc
    /\ alloc < MaxDeep
    /\ alloc' = alloc + 1
    /\ upvotes' = [upvotes EXCEPT ![alloc + 1] = u]
    /\ LET pts == [n \in DOMAIN upvotes |-> upvotes'[n] - downvotes[n]]
       IN  SetHeap(TreeAddChild(Heap, pts, p, alloc + 1))
    /\ probe' = [fn |-> "Tree.AddChild", arg |-> p, ret |-> alloc + 1]
    /\ UNCHANGED <<downvotes, created, root, stage, dbVars, run, memoVars, db>>

NextTree == \E p \in DeepNodes, u \in 0..(MaxVotes + 1) : TreeAddChildStep(p, u)

SpecTree == InitDeep /\ [][NextTree]_vars

(***************************************************************************)
(* Properties of the tree engine                                           *)
(***************************************************************************)

Live == {n \in Nodes : Allocated(n)}

\* The entries of the sibling chain that starts at e, in order.
RECURSIVE chainFrom(_, _, _)
chainFrom(h, e, fuel) ==
    IF e = Nil \/ fuel = 0 THEN <<>> ELSE <<e>> \o chainFrom(h, h.sibling[e], fuel - 1)

Range(s) == {s[i] : i \in 1..Len(s)}

NoDuplicates(s) == \A i, j \in 1..Len(s) : i # j => s[i] # s[j]

\* C1: after Arrange(root) on a tree built by AddChild calls, every entry's Score()
\* is >= the Score() of its next sibling, in every sibling chain at every depth
\* (scores taken on the final tree).
C1_ArrangeOrdering ==
    stage = "arranged" =>
        \A n \in Live : sibling[n] # Nil => Score(Heap, n) >= Score(Heap, sibling[n])

\* A chain of three entries with three different scores that the sort has
\* reordered: AddChild leaves a chain in descending order of allocation.
C1_Witness ==
    /\ stage = "arranged"
    /\ \E n \in Live :
          /\ sibling[n] # Nil /\ sibling[sibling[n]] # Nil
          /\ Score(Heap, n) > Score(Heap, sibling[n])
          /\ Score(Heap, sibling[n]) > Score(Heap, sibling[sibling[n]])
          /\ n < sibling[n]

\* C2: Arrange is idempotent: the walk after a second Arrange equals the walk
\* after the first.
C2_ArrangeIdempotent ==
    [][(stage = "arranged" /\ stage' = "rearranged")
          => walk(Heap, root)' = walk(Heap, root)]_vars

Malformed == \E i \in 1..Len(rows) : rows[i][1] = MissingId

\* The place of entry n in the walk w, 0 if it is not there.
IndexIn(w, n) ==
    IF \E i \in 1..Len(w) : w[i] = n
    THEN CHOOSE i \in 1..Len(w) : w[i] = n
    ELSE 0

\* C4: when every row but the root's names an ancestor that is in the entries
\* map, the walk from the entry getEntries returns visits every id of the map
\* exactly once, and the Parent() of every visited entry is nil or an entry
\* visited earlier in the walk.
C4_StructuralClosure ==
    (result = "returned" /\ ~Malformed) =>
        LET w == walk(Heap, root)
        IN  /\ Len(w) = alloc
            /\ Range(w) = Live
            /\ \A i \in 1..Len(w) :
                  parent[w[i]] # Nil =>
                      (IndexIn(w, parent[w[i]]) # 0 /\ IndexIn(w, parent[w[i]]) < i)

\* A full table has been returned in which the sort moved an entry away from
\* the slot its Parent() still names.
C4_Witness ==
    /\ result = "returned" /\ ~Malformed
    /\ alloc = MaxNodes
    /\ \E n \in Live :
          /\ parent[n] # Nil
          /\ child[parent[n]] # n /\ sibling[parent[n]] # n
    /\ \E n \in Live : child[n] # Nil /\ n # root

\* The walk Root, Depth 1 #1, Depth 2 #1, Depth 2 #2, Depth 1 #2, Depth 1 #3,
\* Depth 1 #4 that TestTree expects.
ExpectedWalk == <<1, 4, 6, 5, 7, 3, 2>>

\* C5: when makeUnsortedTree has built its seven entries, all of one creation
\* time, and has arranged them, the walk from the root is Root, Depth 1 #1 (2
\* points), Depth 2 #1 (10), Depth 2 #2 (9), Depth 1 #2 (3), Depth 1 #3 (1),
\* Depth 1 #4 (0).
C5_ScenarioWalk ==
    (stage = "arranged" /\ alloc = ScenarioNodes) => walk(Heap, root) = ExpectedWalk

\* C6: after every AddChild and after Arrange, an entry in the child or sibling
\* slot of p has p as its parent, and an entry with parent p is in p's child or
\* sibling slot.
C6_LinksConsistent ==
    \A n \in Live :
        /\ \A p \in Live : (child[p] = n \/ sibling[p] = n) => parent[n] = p
        /\ parent[n] # Nil => (child[parent[n]] = n \/ sibling[parent[n]] = n)

\* C7: in the tree Arrange returns, the Parent() links lead from every entry to
\* the root, and the root is the only entry without a parent.
C7_RootedAfterArrange ==
    stage \in {"arranged", "rearranged"} =>
        \A n \in Live : (TopOf(Heap, n) = root) /\ (parent[n] = Nil => n = root)

\* C8: for every entry e of a tree built by AddChild, e.Root() is the root of the
\* tree, an entry whose Parent() is nil.
C8_RootReturnsRoot ==
    stage = "built" =>
        \A e \in Live : Root(Heap, e) = root /\ parent[Root(Heap, e)] = Nil

\* C9: when a row names an ancestor that is not in the entries map, getEntries
\* ends by returning a malformed-relation error value: it does not crash, and it
\* returns no tree.
C9_MalformedRelationError ==
    (Malformed /\ result \notin {"none", "building"}) => result = "error"

\* C10: Points, Score and recursivePoints called on nil return 0.
C10_NilScoresZero ==
    (probe.fn # "none" /\ probe.arg = Nil) => probe.ret = 0

\* Score was called on nil while a tree of several entries with votes exists.
C10_Witness ==
    /\ probe.fn = "Score" /\ probe.arg = Nil /\ probe.ret = 0
    /\ alloc > 1
    /\ TotalVotes > 0

\* The chains that start at x and at y have the same shape and the same votes,
\* entry by entry, with all that hangs below them.
RECURSIVE SameChain(_, _, _)
SameChain(h, x, y) ==
    IF x = Nil \/ y = Nil THEN x = y
    ELSE /\ upvotes[x] = upvotes[y]
         /\ downvotes[x] = downvotes[y]
         /\ SameChain(h, h.child[x], h.child[y])
         /\ SameChain(h, h.sibling[x], h.sibling[y])

\* Entries a and b differ in nothing that Score() reads but their age.
DifferOnlyInAge(a, b) ==
    /\ upvotes[a] = upvotes[b]
    /\ downvotes[a] = downvotes[b]
    /\ SameChain(Heap, child[a], child[b])

\* C11: of two entries with the same votes and the same subtrees below them,
\* the younger one has a Score() that is not smaller than the older one's,
\* whatever their points are.
C11_ScoreMonotonicDecay ==
    \A a, b \in Live :
        (DifferOnlyInAge(a, b) /\ Younger(a, b)) => Score(Heap, a) >= Score(Heap, b)

\* C12: a childless entry without votes that was created now has a Score()
\* strictly greater than such an entry created 48 hours ago.
C12_FreshOutranksTwoDays ==
    \A a, b \in Live :
        ( /\ child[a] = Nil /\ child[b] = Nil
          /\ Points(a) = 0 /\ upvotes[a] = 0
          /\ Points(b) = 0 /\ upvotes[b] = 0
          /\ created[a] = "now" /\ created[b] = "twoDays" )
        => Score(Heap, a) > Score(Heap, b)

\* A tree holds a childless fresh entry and a childless entry of 48 hours, both
\* without votes, next to an entry that has a vote.
C12_Witness ==
    /\ \E a, b \in Live :
          /\ child[a] = Nil /\ child[b] = Nil
          /\ upvotes[a] + downvotes[a] = 0
          /\ upvotes[b] + downvotes[b] = 0
          /\ created[a] = "now" /\ created[b] = "twoDays"
          /\ Score(Heap, a) > Score(Heap, b)
    /\ alloc = MaxAged

\* The entry that holds the sibling chain of m in its child slot.
RECURSIVE chainOwner(_, _, _)
chainOwner(h, m, fuel) ==
    IF fuel = 0 \/ m = Nil \/ h.parent[m] = Nil THEN Nil
    ELSE IF h.child[h.parent[m]] = m THEN h.parent[m]
    ELSE chainOwner(h, h.parent[m], fuel - 1)

\* Entry m is in the subtree of n and is not n.
RECURSIVE isBelow(_, _, _, _)
isBelow(h, m, n, fuel) ==
    LET o == chainOwner(h, m, Cardinality(DOMAIN h.child))
    IN  IF fuel = 0 \/ o = Nil THEN FALSE
        ELSE o = n \/ isBelow(h, o, n, fuel - 1)

Descendants(h, n) == {m \in Live : isBelow(h, m, n, Cardinality(DOMAIN h.child))}

\* C13: ChildCount() of an entry of a tree built by AddChild is the number of
\* entries in its subtree other than itself, 0 for an entry without a child.
C13_ChildCountDescendants ==
    probe.fn = "ChildCount" =>
        /\ probe.ret = Cardinality(Descendants(Heap, probe.arg))
        /\ child[probe.arg] = Nil => probe.ret = 0

\* ChildCount() was called on an entry that has a grandchild and more than one
\* child, and on a childless entry before that.
C13_Witness ==
    /\ probe.fn = "ChildCount"
    /\ probe.ret = alloc - 1 /\ alloc = MaxNodes
    /\ \E m \in Live : child[m] # Nil /\ sibling[m] # Nil /\ chainOwner(Heap, m, MaxNodes) = probe.arg
    /\ \E m \in Live : m # probe.arg /\ child[m] = Nil /\ childCount[m] = 0

\* The ancestor of entry d that is k levels up, 0 if there is none, by the
\* parents the entries were persisted under.
RECURSIVE ancestorAt(_, _, _)
ancestorAt(d, e, k) ==
    IF e = 0 \/ k = 0 THEN e
    ELSE ancestorAt(d, IF e \in DOMAIN d.parentOf THEN d.parentOf[e] ELSE 0, k - 1)

\* One row (a, e, k) for every ancestor-or-self a of every entry e.
AncestryOf(d) ==
    {<<ancestorAt(d, e, k), e, k>> : e \in d.entries, k \in 0..MaxEntries}
        \ {r \in (0..0) \X d.entries \X (0..MaxEntries) : TRUE}

\* C14: after every Persist the closure table holds exactly one row (a, d, depth)
\* for every ancestor-or-self a of every entry d; a successful Persist(parentId)
\* adds only rows of the new entry, and a failed one adds none.
C14_ClosureTableCorrect ==
    [][ /\ db'.closures = AncestryOf(db')
        /\ db.closures \subseteq db'.closures
        /\ \A r \in db'.closures \ db.closures : db'.err = "nil" /\ r[2] = db.nextId
        /\ (db' # db /\ db'.tx = "committed") =>
              \E r \in db'.closures \ db.closures : r = <<db.nextId, db.nextId, 0>> ]_vars

\* The table holds an entry two levels below another one, stored after a
\* transaction that was rolled back had taken an id.
C14_Witness ==
    /\ \E r \in db.closures : r[3] = 2 /\ r[2] = MaxEntries
    /\ Cardinality(db.entries) < db.nextId - 1
    /\ db.err = "nil"

\* C15: AddChild(P, n) of a new entry n makes n the first child of P, with P as
\* its parent and P's previous first child (if any) as its sibling, whose parent
\* becomes n; no other link changes, and a chain that was only added to holds
\* its entries in the reverse of the order they were added.
C15_AddChildAtHead ==
    [][ (alloc' = alloc + 1 /\ Heap' # Heap) =>
          LET n == alloc + 1
          IN  /\ \E P \in DOMAIN child :
                    /\ child' = [child EXCEPT ![P] = n]
                    /\ sibling' = [sibling EXCEPT ![n] = child[P]]
                    /\ parent' = IF child[P] = Nil
                                 THEN [parent EXCEPT ![n] = P]
                                 ELSE [parent EXCEPT ![n] = P, ![child[P]] = n]
              /\ stage = "built" =>
                    \A m \in DOMAIN sibling :
                        sibling'[m] # Nil => sibling'[m] < m ]_vars

\* C16: e.addSibling(newE), where newE heads a chain that e is not in, leaves e
\* in a chain that holds every entry e's chain held and every entry of newE's
\* chain, each once, and that ends in nil.
C16_AddSiblingKeepsChains ==
    [][ (probe'.fn = "addSibling" /\ (Heap' # Heap \/ stage' # stage)) =>
          LET e == probe'.arg
              newE == probe'.ret
              after == ChainOf(Heap', e)
          IN  /\ stage' # "overflow"
              /\ Range(after) = Range(ChainOf(Heap, e)) \cup Range(ChainOf(Heap, newE))
              /\ NoDuplicates(after)
              /\ Len(after) <= Cardinality(DOMAIN sibling) ]_vars

\* C17: e.addSibling(newE) for an entry e without a parent makes newE the
\* sibling of e: newE is reached from e by the sibling links, and e still has no
\* parent.
C17_RootGetsSibling ==
    [][ (probe'.fn = "addSibling" /\ Heap' # Heap /\ parent[probe'.arg] = Nil) =>
          /\ \E i \in 1..Len(siblingsFrom(Heap', probe'.arg, MaxNodes)) :
                siblingsFrom(Heap', probe'.arg, MaxNodes)[i] = probe'.ret
          /\ parent'[probe'.arg] = Nil ]_vars

\* The entries that have been made the child of an entry.
Linked(h) == {n \in DOMAIN h.parent : h.parent[n] # Nil}

\* The pairs of getEntries that name two different entries.
OtherPairs == {i \in 1..Len(relationships) : relationships[i].Parent # relationships[i].Child}

\* C18: a round of the construction loop on a pair whose Parent is its Child
\* changes no link; a round on any other pair makes the Child the first child of
\* the Parent, and links no other entry; when the loop ends, as many entries
\* have been linked as there are such pairs.
C18_SelfPairsSkipped ==
    [][ (result = "building" /\ pos' = pos + 1) =>
          LET rel == relationships[pos]
          IN  /\ rel.Parent = rel.Child => Heap' = Heap
              /\ rel.Parent # rel.Child =>
                    /\ child'[rel.Parent] = rel.Child
                    /\ parent'[rel.Child] = rel.Parent
                    /\ rel.Child \notin Linked(Heap)
                    /\ Linked(Heap') = Linked(Heap) \cup {rel.Child}
              /\ pos' > Len(relationships) =>
                    Cardinality(Linked(Heap')) = Cardinality(OtherPairs) ]_vars

\* The loop has ended on a full table whose self pair was neither the first nor
\* the last, every other entry linked.
C18_Witness ==
    /\ result = "building" /\ pos > Len(relationships)
    /\ Len(relationships) = MaxNodes
    /\ request.root \notin {1, MaxNodes}
    /\ Cardinality(Linked(Heap)) = MaxNodes - 1

\* The number of child and sibling links that lead from e to d, -1 if none do.
RECURSIVE linksTo(_, _, _, _)
linksTo(h, e, d, fuel) ==
    IF e = Nil \/ fuel = 0 THEN -1
    ELSE IF e = d THEN 0
    ELSE LET viaChild == linksTo(h, h.child[e], d, fuel - 1)
             viaSibling == linksTo(h, h.sibling[e], d, fuel - 1)
         IN  IF viaChild >= 0 THEN viaChild + 1
             ELSE IF viaSibling >= 0 THEN viaSibling + 1
             ELSE -1

\* h(n, d): one child link from n, then the links from the first child to d.
PathLinks(h, n, d) ==
    LET below == linksTo(h, h.child[n], d, Cardinality(DOMAIN h.child))
    IN  IF below >= 0 THEN below + 1 ELSE -1

\* The entries of the subtree of n other than n.
Below(h, n) == {d \in DOMAIN h.child : d <= alloc /\ PathLinks(h, n, d) > 0}

\* The sibling chains that start at a and at b have no entry in common, and
\* no entry of one is below an entry of the other.
DisjointChains(h, a, b) ==
    LET N == Cardinality(DOMAIN h.sibling)
        A == Range(chainFrom(h, a, N))
        B == Range(chainFrom(h, b, N))
    IN  /\ A \cap B = {}
        /\ \A x \in A, y \in B : PathLinks(h, x, y) < 0 /\ PathLinks(h, y, x) < 0

\* C19: merge(a, b) of two chains whose first entries have equal scores emits
\* the first entry of b first; and the sort of Arrange returns a chain of two
\* entries with equal scores in swapped order.
C19_MergeTieBreak ==
    [][ (stage = "built" /\ stage' = "arranged") =>
          /\ \A a, b \in Live :
                (DisjointChains(Heap', a, b) /\ Score(Heap', a) = Score(Heap', b))
                    => merge(Heap', a, b).ret = b
          /\ \A P, n, m \in Live :
                ( /\ child[P] = n /\ sibling[n] = m /\ sibling[m] = Nil
                  /\ Score(Heap', n) = Score(Heap', m) )
                => (child'[P] = m /\ sibling'[m] = n /\ sibling'[n] = Nil) ]_vars

\* Arrange has swapped a chain of two entries with equal scores, one of which
\* has a child.
C19_Witness ==
    /\ stage = "arranged"
    /\ \E P, n, m \in Live :
          /\ child[P] = n /\ sibling[n] = m /\ sibling[m] = Nil
          /\ n < m
          /\ Score(Heap, n) = Score(Heap, m)
          /\ child[n] # Nil \/ child[m] # Nil

\* The first entries of the sibling chains of two or more entries below the root.
LongChainHeads(h) ==
    {n \in Live : n # root /\ h.sibling[n] # Nil /\ chainHead(h, n, MaxNodes) = n}

\* C20: one Arrange(root) over a tree built by AddChild starts mergeSort once at
\* the first entry of every sibling chain of two or more entries, and nowhere
\* else.
C20_SortOncePerChain ==
    [][ (stage = "built" /\ stage' = "arranged") =>
          LET sorts == Arrange(Heap, root).sorts
          IN  /\ NoDuplicates(sorts)
              /\ Range(sorts) = LongChainHeads(Heap)
              /\ Heap' = Arrange(Heap, root).h ]_vars

\* Arrange has run over a tree with a chain of two or more entries below an
\* entry that is not the root.
C20_Witness ==
    /\ stage = "arranged"
    /\ alloc = MaxNodes
    /\ \E n \in Live : n # root /\ child[n] # Nil /\ sibling[child[n]] # Nil

\* The chain that starts at e is in the order of the sort: no entry has a
\* Score() below that of its next sibling.
SortedChain(h, e) ==
    \A m \in Range(chainFrom(h, e, Cardinality(DOMAIN h.sibling))) :
        h.sibling[m] # Nil => Score(h, m) >= Score(h, h.sibling[m])

\* C21: when Arrange starts the sort of a chain, the child chain of every entry
\* of that chain is sorted already, and it is the same, with all below it, in
\* the tree Arrange returns; the Score() of every entry at each comparison of
\* the sorts is its Score() in the tree Arrange returns.
C21_BottomUpOrdering ==
    [][ (stage = "built" /\ stage' = "arranged") =>
          LET r == Arrange(Heap, root)
          IN  /\ Heap' = r.h
              /\ \A i \in 1..Len(r.sorts) :
                    \A m \in Range(chainFrom(r.at[i], r.sorts[i], Cardinality(DOMAIN child))) :
                        /\ SortedChain(r.at[i], r.at[i].child[m])
                        /\ walk(r.at[i], r.at[i].child[m]) = walk(Heap', child'[m])
              /\ \A k \in 1..Len(r.cmps) :
                    r.cmps[k].score = Score(Heap', r.cmps[k].e) ]_vars

\* Arrange has sorted a chain of two or more entries, one of which has two
\* children that the sort below it has put in another order.
C21_Witness ==
    /\ stage = "arranged"
    /\ \E A \in DOMAIN child :
          /\ A # root /\ A <= alloc
          /\ sibling[A] # Nil \/ (\E q \in DOMAIN sibling : sibling[q] = A)
          /\ child[A] # Nil /\ sibling[child[A]] # Nil
          /\ child[A] < sibling[child[A]]
          /\ Score(Heap, child[A]) > Score(Heap, sibling[child[A]])

\* The sum of Points(d) * DECAY^PathLinks(n, d) over the entries d of S, in
\* units of 1/Unit.
RECURSIVE DecayedPoints(_, _, _)
DecayedPoints(h, n, S) ==
    IF S = {} THEN 0
    ELSE LET d == CHOOSE x \in S : TRUE
         IN  Points(d) * (Unit \div (2 ^ PathLinks(h, n, d)))
             + DecayedPoints(h, n, S \ {d})

\* C22: Score(n) is the rounded quotient whose numerator is Points(n) + EPS +
\* the sum of Points(d) * DECAY^h(n, d) over the entries d below n; the part
\* that the children add is that sum, and the entries of n's own sibling chain
\* are not in it.
C22_ScoreNumerator ==
    \A n \in DOMAIN child :
        n <= alloc =>
            /\ Score(Heap, n)
                   = round([num |-> Milli * (Points(n) * Unit
                                             + DecayedPoints(Heap, n, Below(Heap, n)))
                                    + Unit,
                            age |-> created[n]])
            /\ Decay(recursivePoints(Heap, child[n]))
                   = DecayedPoints(Heap, n, Below(Heap, n))
            /\ \A m \in Range(ChainOf(Heap, n)) : m \notin Below(Heap, n)

\* An entry has a sibling with an upvote, a first child with an upvote, and
\* below it an entry with an upvote that is two links away, one of them a
\* sibling link.
C22_Witness ==
    \E n, m, d \in DOMAIN child :
        /\ n <= alloc /\ m <= alloc /\ d <= alloc
        /\ m # n /\ m \in Range(ChainOf(Heap, n)) /\ Points(m) > 0
        /\ child[n] # Nil /\ Points(child[n]) > 0
        /\ PathLinks(Heap, n, d) = 2 /\ Points(d) > 0
        /\ sibling[child[n]] = d

\* The links of entries that New() has made and nothing has linked yet
Unlinked ==
    [parent |-> [n \in DOMAIN parent |-> Nil],
     child |-> [n \in DOMAIN child |-> Nil],
     sibling |-> [n \in DOMAIN sibling |-> Nil]]

\* The loop that constructs the full Entry, run over the pairs rels from the
\* i-th on.
RECURSIVE linkAll(_, _, _)
linkAll(h, rels, i) ==
    IF i > Len(rels) THEN h
    ELSE IF SkipsPair(rels[i]) THEN linkAll(h, rels, i + 1)
    ELSE linkAll(AddChild(h, Entries(rels[i].Parent), Entries(rels[i].Child)), rels, i + 1)

\* The walk of the tree that getEntries returns when its rows come as rels
WalkOfBuild(rels) ==
    LET h == linkAll(Unlinked, rels, 1)
        r == Arrange(h, Entries(getRoot(h)))
    IN  walk(r.h, r.ret)

\* C23: the walk of the tree that getEntries returns is the walk of the tree
\* it returns for the same rows in any other order.
C23_OrderIndependent ==
    (result = "returned" /\ ~Malformed) =>
        \A o \in Permutations(1..Len(relationships)) :
            WalkOfBuild([i \in 1..Len(relationships) |-> relationships[o[i]]])
                = walk(Heap, root)

\* C24: a call of ChildCount() on an entry leaves the entry marked as having
\* its count (hasChildCount); a call on an entry that is marked returns the
\* stored count and stores nothing.
C24_ChildCountMemoized ==
    [][ probe'.fn = "ChildCount" =>
          LET e == probe'.arg
          IN  /\ hasChildCount'[e]
              /\ hasChildCount[e] =>
                    (probe'.ret = childCount[e] /\ childCount' = childCount) ]_vars

\* C25: when a benchmark has added its entries to the root of the arranged tree
\* and has arranged the tree again, the walk from the root visits every entry,
\* old and new, exactly once, and every new entry is in the child chain of the
\* root.
C25_InsertAfterArrange ==
    (stage = "rearranged" /\ run.fn # "TestTree") =>
        LET w == walk(Heap, root)
        IN  /\ Len(w) = alloc
            /\ Range(w) = 1..alloc
            /\ \A n \in (ScenarioNodes + 1)..alloc :
                  n \in Range(chainFrom(Heap, child[root], Cardinality(DOMAIN sibling)))

\* C26: Arrange leaves the set of entries in the child chain of every entry as
\* it was, the walk from the entry it returns visits the entries the walk from
\* the root visited before, each once, and every sibling chain ends in nil.
C26_ArrangeOnlyReorders ==
    [][ (stage # stage' /\ stage' \in {"arranged", "rearranged"}) =>
          LET N == Cardinality(DOMAIN sibling)
          IN  /\ \A n \in 1..alloc :
                    Range(chainFrom(Heap', child'[n], N)) = Range(chainFrom(Heap, child[n], N))
              /\ Range(walk(Heap', root')) = Range(walk(Heap, root))
              /\ NoDuplicates(walk(Heap', root'))
              /\ Len(walk(Heap', root')) = alloc
              /\ \A n \in 1..alloc : Len(chainFrom(Heap', n, N + 1)) <= N ]_vars

\* Arrange has put the children of an entry, one of which has two children of
\* its own, in another order.
C26_Witness ==
    /\ stage = "arranged"
    /\ \E P, a \in DOMAIN child :
          /\ child[P] = a /\ sibling[a] # Nil
          /\ a < sibling[a]
          /\ \E m \in Range(chainFrom(Heap, a, MaxDeep)) :
                child[m] # Nil /\ sibling[child[m]] # Nil

\* C27: Arrange of a tree built by AddChild returns; every call of mergeSort
\* on a chain of n >= 2 entries splits it into a first half of ceil(n / 2)
\* entries and a second half of the other entries, at least one, so that both
\* halves are shorter than n; the loop of its merge makes at most n - 1
\* rounds; and mergeSort splits fewer times than the tree has entries.
C27_ArrangeTerminates ==
    [][ (stage = "built" /\ stage' = "arranged") =>
          LET r == Arrange(Heap, root)
          IN  /\ Heap' = r.h
              /\ \A i \in 1..Len(r.calls) :
                    LET c == r.calls[i]
                    IN  /\ c.n >= 2
                        /\ c.first = (c.n + 1) \div 2
                        /\ c.second = c.n - c.first
                        /\ c.second >= 1
                        /\ c.first < c.n /\ c.second < c.n
                        /\ c.rounds >= 1 /\ c.rounds <= c.n - 1
              /\ Len(r.calls) < alloc ]_vars

\* Arrange has sorted a chain that holds every entry but the root, which
\* mergeSort splits more than once.
C27_Witness ==
    /\ stage = "arranged"
    /\ \E a \in DOMAIN sibling : chainLen(Heap, a, MaxDeep) = MaxDeep - 1

\* C28: when the entry insert, the preparation of the closure statement or the
\* closure insert of a Persist fails, the transaction is rolled back, an error
\* is returned and both tables are as before the call; a call that changes a
\* table has gone through every step, has committed, and has stored the entry
\* row together with the closure rows of that entry.
C28_PersistAllOrNothing ==
    [][ db' # db =>
          /\ db'.failed \in {"createFails", "prepareClosureFails", "closureFails"} =>
                /\ db'.tx = "rolledBack"
                /\ db'.err = "error"
                /\ db'.entries = db.entries /\ db'.closures = db.closures
          /\ (db'.entries # db.entries \/ db'.closures # db.closures) =>
                /\ db'.failed = "none" /\ db'.tx = "committed" /\ db'.err = "nil"
                /\ db'.entries = db.entries \cup {db.nextId}
                /\ db.nextId \notin db.entries
                /\ <<db.nextId, db.nextId, 0>> \in db'.closures
                /\ \A r \in db'.closures \ db.closures : r[2] = db.nextId ]_vars

\* A Persist under a stored parent has failed at its closure insert, after its
\* entry insert had taken an id, and has left the tables without that id.
C28_Witness ==
    /\ db.failed = "closureFails" /\ db.tx = "rolledBack"
    /\ db.entries # {}
    /\ (db.nextId - 1) \notin db.entries
    /\ \A r \in db.closures : r[2] # db.nextId - 1

\* C29: p.AddChild(n) of tree.go, for a new element n, leaves the children of
\* p in non-increasing order of points, with n after every child that has at
\* least the points of n, the other children in the order they had, and no
\* element twice.
C29_PointsOrderedInsertion ==
    [][ (probe'.fn = "Tree.AddChild" /\ alloc' = alloc + 1) =>
          LET P == probe'.arg
              n == probe'.ret
              N == Cardinality(DOMAIN sibling)
              before == chainFrom(Heap, child[P], N)
              after == chainFrom(Heap', child'[P], N)
              k == IndexIn(after, n)
          IN  /\ k > 0
              /\ NoDuplicates(after)
              /\ Len(after) = Len(before) + 1
              /\ \A i \in 1..(Len(after) - 1) :
                    upvotes'[after[i]] - downvotes'[after[i]]
                        >= upvotes'[after[i + 1]] - downvotes'[after[i + 1]]
              /\ \A i \in 1..Len(before) :
                    Points(before[i]) >= upvotes'[n] - downvotes'[n]
                        => IndexIn(after, before[i]) < k
              /\ before = [i \in 1..Len(before) |-> IF i < k THEN after[i] ELSE after[i + 1]]
    ]_vars

\* The last element was added between two children of an element, below one
\* that has the same points; every other element is a child of that element.
C29_Witness ==
    /\ probe.fn = "Tree.AddChild"
    /\ alloc = MaxDeep
    /\ chainLen(Heap, child[probe.arg], MaxDeep) = MaxDeep - 1
    /\ sibling[probe.ret] # Nil
    /\ \E q \in DOMAIN sibling :
          sibling[q] = probe.ret /\ Points(q) = Points(probe.ret)

\* C30: after Arrange of a tree built by AddChild, the Parent() of every entry
\* is nil or the entry whose child chain holds it; of a chain of two or more
\* entries, the entry that was first before the sort has its Parent(), and no
\* other entry of the chain has one.
C30_ParentAfterArrange ==
    [][ (stage = "built" /\ stage' = "arranged") =>
          LET N == Cardinality(DOMAIN sibling)
          IN  /\ \A n \in 1..alloc :
                    parent'[n] # Nil =>
                        n \in Range(chainFrom(Heap', child'[parent'[n]], N))
              /\ \A P \in 1..alloc :
                    (child[P] # Nil /\ sibling[child[P]] # Nil) =>
                        \A m \in Range(chainFrom(Heap, child[P], N)) :
                            /\ m = child[P] => parent'[m] = P
                            /\ m # child[P] => parent'[m] = Nil ]_vars

\* Arrange has sorted a chain of three or more entries, and the one entry of
\* the chain that has a Parent() is not the first of the chain any more.
C30_Witness ==
    /\ stage = "arranged"
    /\ \E P, m \in DOMAIN child :
          /\ parent[m] = P /\ child[P] # Nil /\ child[P] # m
          /\ m \in Range(chainFrom(Heap, child[P], MaxDeep))
          /\ chainLen(Heap, child[P], MaxDeep) >= 3

====
